---- MODULE Spec2Model ----
(***************************************************************************)
(* Model of Stream_Panel_v2/plex_service_v2.py: per-user library access on *)
(* one Plex server.  The remote platform (plex.tv and the plexapi client)  *)
(* is the environment: every remote call answers with one of the outcomes  *)
(* its interface allows, and the handlers of plex_service_v2.py are        *)
(* translated step by step, one action per remote call they make.          *)
(***************************************************************************)
EXTENDS Integers, Sequences, FiniteSets, TLC

VARIABLES
    \* ---- share_libraries_on_server against the remote state ----
    remote,      \* the target user's record on the remote platform
    library_ids, \* the library_ids argument (a list of strings)
    pc,          \* position inside share_libraries_on_server
    valid,       \* valid_library_ids (section keys, in request order)
    existing,    \* existing_user was found by account.user()
    result,      \* the dict returned by the call
    writes,      \* mutating remote calls issued by the current call
    calls,       \* number of invocations started so far
    lookups,     \* account.user() calls issued by the current call
    before,      \* the remote state when the current call started
    others,      \* number of writes by other writers so far
    prev,        \* the call before the current one: result, writes, remote state left
    fallback     \* the removal fallback: shared_response and target_share_id

shareVars == <<remote, library_ids, pc, valid, existing, result, writes, lookups,
               before, calls, others, prev, fallback>>

VARIABLES
    \* ---- remove_user ----
    user_identifier, \* the user_identifier argument
    rpc,             \* position inside remove_user
    friends,         \* account.users() as read by the friends scan
    pending,         \* account.pendingInvites(includeSent=True) as read
    existing_user,   \* the account resolved (found = FALSE: None)
    matched_by,      \* how existing_user was resolved (the log line written)
    target,          \* index in `pending` of the invite passed to cancelInvite
    rresult,         \* the dict returned by remove_user
    rreads,          \* the lookups of remove_user that answered without a match
    rwrites,         \* mutating remote calls issued by remove_user
    elsewhere        \* the user has access to another server of the same account

removeVars == <<user_identifier, rpc, friends, pending, existing_user, matched_by,
                target, rresult, rreads, rwrites, elsewhere>>

VARIABLES
    \* ---- get_all_users_with_library_access ----
    lpc,             \* position inside get_all_users_with_library_access
    users_list,      \* users_list
    seen_emails,     \* seen_emails
    all_library_ids, \* all_library_ids
    home_users,      \* the <User> elements of the home users response
    hi,              \* index in home_users of the element the loop is at
    home_log,        \* per home user handled: the lookup's answer and library_ids
    shares_status,   \* status code of the shared_servers response (0: none yet)
    lresult,         \* the dict returned by the call
    alarm            \* the SIGALRM set by set_timeout is still to go off

listVars == <<lpc, users_list, seen_emails, all_library_ids, home_users, hi,
              home_log, shares_status, lresult, alarm>>

VARIABLES
    \* ---- get_all_users_with_activity ----
    apc,                  \* position inside get_all_users_with_activity
    all_users,            \* all_users
    pending_users,        \* pending_users
    activity_users_list,  \* users_list of get_all_users_with_activity
    pending_invites_list, \* pending_invites_list
    ai,                   \* index in all_users of the user the loop is at
    aresult,              \* the dict returned by the call
    aalarm                \* the SIGALRM set by set_timeout(90) is still to go off

activityVars == <<apc, all_users, pending_users, activity_users_list,
                  pending_invites_list, ai, aresult, aalarm>>

VARIABLES
    \* ---- plex_watch_statistics.py: get_watch_statistics ----
    servers_config,  \* servers_config (the servers, by position)
    spc,             \* position inside get_watch_statistics
    si,              \* index in servers_config of the server the loop is at
    attempt,         \* attempt, the variable of the retry loop
    fetch_log,       \* per server: the outcomes of its plex.history() calls
    handled,         \* per server: how its iteration ended
    stats            \* the document written to stdout

statsVars == <<servers_config, spc, si, attempt, fetch_log, handled, stats>>

VARIABLES
    \* ---- main ----
    argv,        \* sys.argv as main reads it
    mpc,         \* position inside main and the operation it calls
    now,         \* seconds since the process started
    armed,       \* a SIGALRM is scheduled
    alarm_at,    \* when the scheduled SIGALRM is delivered
    op_start,    \* when the operation was entered
    region,      \* inside the operation: its body, or an inner try block
    op_result,   \* the kind of dict the operation returned
    expired,     \* where and when the SIGALRM was delivered
    docs,        \* the JSON documents written to stdout
    exit_status  \* the exit status of the process

mainVars == <<argv, mpc, now, armed, alarm_at, op_start, region, op_result,
              expired, docs, exit_status>>

vars == <<shareVars, removeVars, listVars, activityVars, mainVars, statsVars>>

None == "None"

\* ------------------------------------------------------------------ bounds
NumSections == 2    \* sections in the server's catalog
MaxReq == 2         \* longest library_ids list
MaxCalls == 2       \* invocations in sequence
MaxOthers == 1      \* writes by other writers
MaxFriends == 2     \* longest friends list
MaxInvites == 2     \* longest list of pending invites
MaxShares == 2      \* longest shared_servers response
MaxHome == 2        \* longest home users response
MaxTicks == 9       \* how long a process is observed, in steps of Quantum
MaxServers == 2     \* longest servers_config

\* ------------------------------------------------------------ remote state
\* section.key of every section returned by server.library.sections()
Catalog == 1..NumSections

\* str(section.key)
StrOf(k) == ToString(k)

\* section_map = {str(section.key): section for section in all_sections}
section_map == [s \in {StrOf(k) : k \in Catalog} |->
                   CHOOSE k \in Catalog : StrOf(k) = s]

\* what a caller may put in library_ids: catalog ids and a stale one
ReqIds == {"1", "2", "9"}

RECURSIVE SeqsUpTo(_, _)
SeqsUpTo(S, n) ==
    IF n = 0 THEN {<<>>}
    ELSE LET shorter == SeqsUpTo(S, n - 1)
         IN  shorter \cup {Append(q, x) : q \in shorter, x \in S}

Requests == SeqsUpTo(ReqIds, MaxReq)

Range(q) == {q[i] : i \in DOMAIN q}

\* The target user's relationship to the account and to this server:
\*   rel   "none" | "pending" (invited, not accepted) | "friend" (in account.users())
\*   share a share record of this server exists for the user
\*   secs  the section keys that record flags as shared
RemoteStates ==
    {r \in [rel : {"none", "pending", "friend"}, share : BOOLEAN,
            secs : SUBSET Catalog] :
        /\ r.rel = "none" => ~r.share
        /\ r.rel = "pending" => r.share
        /\ ~r.share => r.secs = {}}

NoRecord == [rel |-> "none", share |-> FALSE, secs |-> {}]

\* outcomes of a write primitive (updateFriend / inviteFriend): acknowledged,
\* an error raised after the mutation was applied, an error raised with
\* nothing applied ("404" in the text or not)
WriteOutcomes == {"ack", "e404_applied", "e404_lost", "error"}

Applied(o) == o \in {"ack", "e404_applied"}

\* updateFriend(user, server, sections): replaces the section set of a friend
RemoteUpdate(r, secs) ==
    [rel |-> r.rel, share |-> secs # {}, secs |-> secs]

\* inviteFriend(user, server, sections): creates the pending share record, or
\* replaces the sections of the record the user already has
RemoteInvite(r, secs) ==
    [rel |-> IF r.rel = "none" THEN "pending" ELSE r.rel,
     share |-> TRUE, secs |-> secs]

\* DELETE /api/servers/{id}/shared_servers/{share id}
RemoteDelete(r) ==
    [rel |-> IF r.rel = "pending" THEN "none" ELSE r.rel,
     share |-> FALSE, secs |-> {}]

\* ----------------------------------------------------------------- results
Result(success, message, shared, warning) ==
    [success |-> success, message |-> message, libraries_shared |-> shared,
     warning |-> warning]

NoResult == Result(FALSE, "", None, FALSE)

\* a plausible slip: valid ids are collected in reverse order
RECURSIVE ValidLibraryIdsReversed(_)
ValidLibraryIdsReversed(ids) ==
    IF ids = <<>> THEN <<>>
    ELSE LET lib_id_str == Head(ids)
         IN  ValidLibraryIdsReversed(Tail(ids))
             \o (IF lib_id_str \in DOMAIN section_map
                    THEN <<section_map[lib_id_str]>> ELSE <<>>)

\* lines 212-218: keep the requested ids that are keys of section_map
RECURSIVE ValidLibraryIds(_)
ValidLibraryIds(ids) ==
    IF ids = <<>> THEN <<>>
    ELSE LET lib_id_str == Head(ids)
         IN  (IF lib_id_str \in DOMAIN section_map
                 THEN <<section_map[lib_id_str]>> ELSE <<>>)
             \o ValidLibraryIds(Tail(ids))


Failure(message) == Result(FALSE, message, None, FALSE)

\* a return statement: the call ends with `res`
Finish(res) ==
    /\ pc' = "done"
    /\ result' = res

Running == pc \notin {"idle", "done"}

\* user_email, and existing_user.username of the account it resolves to
user_email == "u@x"

username == "u"

\* <SharedServer> elements of this server: the target user's and another user's
UserShare == [id |-> "7", email |-> user_email, username |-> username]

OtherShare == [id |-> "8", email |-> "o@x", username |-> "o"]

\* what GET /api/servers/{id}/shared_servers lists, given the remote state
SharedServers(r) ==
    IF r.share
    THEN {<<UserShare>>, <<OtherShare, UserShare>>, <<UserShare, OtherShare>>}
    ELSE {<<>>, <<OtherShare>>}

\* line 159: email == user_email or username == existing_user.username
ShareMatches(s) == s.email = user_email \/ s.username = username

\* a plausible slip: the id of the first listed share is taken, matching or not
TargetShareIdOfFirst(list, i) == IF list = <<>> THEN None ELSE list[1].id

\* lines 154-162: target_share_id, the id of the first matching share from
\* position i on (None: no share matches)
RECURSIVE TargetShareId(_, _)
TargetShareId(list, i) ==
    IF i > Len(list) THEN None
    ELSE IF ShareMatches(list[i]) THEN list[i].id
    ELSE TargetShareId(list, i + 1)

\* every list the GET may answer with
SharedServerLists == UNION {SharedServers(r) : r \in RemoteStates}

\* the fallback before its GET
NoFallback == [status |-> 0, shared_servers |-> <<>>, target_share_id |-> None]

\* share_libraries_on_server touches nothing of the other commands
ShareFrame ==
    UNCHANGED <<removeVars, listVars, activityVars, mainVars, statsVars>>

\* ------------------------------------------- share_libraries_on_server
\* lines 60-94 and 211-226: connect, find the server, read the catalog, route on
\* an empty library_ids, validate the requested ids
ShareStart(conn) ==
    /\ pc \in {"idle", "done"}
    /\ ShareFrame
    /\ calls < MaxCalls
    /\ calls' = calls + 1
    /\ writes' = <<>>
    /\ lookups' = 0
    /\ before' = remote
    /\ prev' = IF pc = "done"
               THEN [result |-> result, writes |-> writes, remote |-> remote]
               ELSE prev
    /\ existing' = FALSE
    /\ fallback' = NoFallback
    /\ UNCHANGED <<remote, library_ids, others>>
    /\ CASE conn = "error" ->
                /\ valid' = <<>>
                /\ Finish(Failure("error"))
         [] conn = "noserver" ->
                /\ valid' = <<>>
                /\ Finish(Failure("Server not found"))
         [] OTHER ->
                IF library_ids = <<>>
                THEN /\ valid' = <<>>
                     /\ pc' = "rv_lookup"
                     /\ UNCHANGED result
                ELSE /\ valid' = ValidLibraryIds(library_ids)
                     /\ IF valid' = <<>>
                        THEN Finish(Failure("No valid library IDs provided"))
                        ELSE /\ pc' = "lookup"
                             /\ UNCHANGED result

\* a plausible slip: the servers of the user are not inspected
HasServerAccessAlways(r) == TRUE

\* lines 105-110: has_server_access, from existing_user.servers
HasServerAccess(r) == r.share

\* lines 188-209: what the removal path returns when account.user() raises
RevokeLookupFailed(o) ==
    IF o = "e404"
    THEN Result(TRUE, "Library access removed (404 ignored)", 0, TRUE)
    ELSE Failure("error")

\* lines 100-120 and 188-209: account.user(user_email) on the removal path
RevokeLookup(o) ==
    /\ pc = "rv_lookup"
    /\ ShareFrame
    /\ lookups' = lookups + 1
    /\ UNCHANGED <<fallback, remote, library_ids, valid, writes, before, calls,
                   others, prev>>
    /\ IF o = "answer"
       THEN IF remote.rel # "friend"
            THEN \* except NotFound
                 /\ existing' = FALSE
                 /\ Finish(Result(TRUE, "User not found - no action needed", 0, FALSE))
            ELSE /\ existing' = TRUE
                 /\ IF ~HasServerAccess(remote)
                    THEN Finish(Result(TRUE, "User has no access - nothing to remove",
                                       0, FALSE))
                    ELSE /\ pc' = "rv_update"
                         /\ UNCHANGED result
       ELSE /\ existing' = FALSE
            /\ Finish(RevokeLookupFailed(o))

\* lines 180-187: the return that closes the removal path
RevokeDone == Result(TRUE, "Removed all library access", 0, FALSE)

\* lines 125-142 and 177-178, 197-209: updateFriend(sections=[])
RevokeUpdate(o) ==
    /\ pc = "rv_update"
    /\ ShareFrame
    /\ Applied(o) => remote.rel = "friend"
    /\ writes' = Append(writes, [op |-> "updateFriend", secs |-> {}, out |-> o])
    /\ remote' = IF Applied(o) THEN RemoteUpdate(remote, {}) ELSE remote
    /\ UNCHANGED <<fallback, library_ids, valid, existing, lookups, before,
                   calls, others, prev>>
    /\ CASE o = "ack" -> Finish(RevokeDone)
         [] o \in {"e404_applied", "e404_lost"} ->
                /\ pc' = "rv_get"
                /\ UNCHANGED result
         [] OTHER -> Finish(Failure("error"))

\* lines 143-162 and 171-176: GET shared_servers and the search for the share
RevokeGetShares(status, list) ==
    /\ pc = "rv_get"
    /\ ShareFrame
    /\ list \in SharedServers(remote)
    /\ UNCHANGED <<remote, library_ids, valid, existing, writes, lookups,
                   before, calls, others, prev>>
    /\ fallback' = [status |-> status,
                    shared_servers |-> IF status = 200 THEN list ELSE <<>>,
                    target_share_id |-> IF status = 200 THEN TargetShareId(list, 1)
                                        ELSE None]
    /\ IF fallback'.target_share_id # None
       THEN /\ pc' = "rv_delete"
            /\ UNCHANGED result
       ELSE Finish(RevokeDone)

\* a plausible slip: a DELETE that is not answered with 200 is sent again
RevokeDeleteRetried(status) ==
    /\ pc = "rv_delete"
    /\ ShareFrame
    /\ writes' = Append(writes, [op |-> "deleteShare", secs |-> {},
                                  out |-> IF status = 200 THEN "ack" ELSE "error"])
    /\ remote' = IF status = 200 /\ fallback.target_share_id = UserShare.id
                 THEN RemoteDelete(remote) ELSE remote
    /\ UNCHANGED <<fallback, library_ids, valid, existing, lookups, before,
                   calls, others, prev>>
    /\ IF status = 200 THEN Finish(RevokeDone) ELSE UNCHANGED <<pc, result>>

\* lines 164-170 and 175-176: DELETE of the share record
RevokeDelete(status) ==
    /\ pc = "rv_delete"
    /\ ShareFrame
    /\ writes' = Append(writes, [op |-> "deleteShare", secs |-> {},
                                  out |-> IF status = 200 THEN "ack" ELSE "error"])
    /\ remote' = IF status = 200 /\ fallback.target_share_id = UserShare.id
                 THEN RemoteDelete(remote) ELSE remote
    /\ UNCHANGED <<fallback, library_ids, valid, existing, lookups, before,
                   calls, others, prev>>
    /\ Finish(RevokeDone)

\* lines 143-176: the GET or the DELETE of the fallback raises (a requests
\* error, or the alarm's TimeoutError): `except Exception` logs it and the
\* removal path goes on to its closing return
RevokeFallbackRaised ==
    /\ pc \in {"rv_get", "rv_delete"}
    /\ ShareFrame
    /\ writes' = IF pc = "rv_delete"
                 THEN Append(writes, [op |-> "deleteShare", secs |-> {},
                                      out |-> "error"])
                 ELSE writes
    /\ UNCHANGED <<fallback, remote, library_ids, valid, existing, lookups,
                   before, calls, others, prev>>
    /\ Finish(RevokeDone)

\* lines 228-234: account.user(user_email) before a grant
Lookup(o) ==
    /\ pc = "lookup"
    /\ ShareFrame
    /\ lookups' = lookups + 1
    /\ UNCHANGED <<fallback, remote, library_ids, valid, writes, before, calls,
                   others, prev>>
    /\ IF o = "answer"
       THEN /\ existing' = (remote.rel = "friend")
            /\ pc' = IF existing' THEN "update" ELSE "invite"
            /\ UNCHANGED result
       ELSE /\ existing' = FALSE
            /\ Finish(Failure("error"))

\* a plausible slip: the 404 branch returns the same dict as the success branch
UpdateResultNoWarning(o, v) ==
    CASE o = "ack" -> Result(TRUE, "Updated library access", Len(v), FALSE)
      [] o \in {"e404_applied", "e404_lost"} ->
            Result(TRUE, "Updated library access", Len(v), FALSE)
      [] OTHER -> Failure("error")

\* a plausible slip: a 404 from updateFriend is re-raised like any other error
UpdateResultRaises(o, v) ==
    IF o = "ack" THEN Result(TRUE, "Updated library access", Len(v), FALSE)
    ELSE Failure("error")

\* lines 252-274 and 306-313: the outcome of updateFriend as a result
UpdateResult(o, v) ==
    CASE o = "ack" -> Result(TRUE, "Updated library access", Len(v), FALSE)
      [] o \in {"e404_applied", "e404_lost"} ->
            Result(TRUE, "Library access updated (404 ignored)", Len(v), TRUE)
      [] OTHER -> Failure("error")

\* lines 237-274: updateFriend(sections=valid_library_ids)
Update(o) ==
    /\ pc = "update"
    /\ ShareFrame
    /\ Applied(o) => remote.rel = "friend"
    /\ writes' = Append(writes, [op |-> "updateFriend", secs |-> Range(valid),
                                  out |-> o])
    /\ remote' = IF Applied(o) THEN RemoteUpdate(remote, Range(valid)) ELSE remote
    /\ UNCHANGED <<fallback, library_ids, valid, existing, lookups, before,
                   calls, others, prev>>
    /\ Finish(UpdateResult(o, valid))

\* a plausible slip: an error raised by inviteFriend is logged and passed over
InviteResultSwallowed(o, v) == Result(TRUE, "Invited to server", Len(v), FALSE)

\* lines 287-296 and 306-313: the outcome of inviteFriend as a result
InviteResult(o, v) ==
    IF o = "ack"
    THEN Result(TRUE, "Invited to server", Len(v), FALSE)
    ELSE Failure(IF o = "error" THEN "error" ELSE "404")

\* lines 275-296: inviteFriend(sections=valid_library_ids)
Invite(o) ==
    /\ pc = "invite"
    /\ ShareFrame
    /\ writes' = Append(writes, [op |-> "inviteFriend", secs |-> Range(valid),
                                  out |-> o])
    /\ remote' = IF Applied(o) THEN RemoteInvite(remote, Range(valid)) ELSE remote
    /\ UNCHANGED <<fallback, library_ids, valid, existing, lookups, before,
                   calls, others, prev>>
    /\ Finish(InviteResult(o, valid))

\* lines 298-305: the alarm goes off while a remote call is in flight, outside
\* the fallback of the removal path
ShareTimeout ==
    /\ Running
    /\ pc \notin {"rv_get", "rv_delete"}
    /\ ShareFrame
    /\ UNCHANGED <<fallback, remote, library_ids, valid, existing, writes,
                   lookups, before, calls, others, prev>>
    /\ Finish(Failure("Operation timed out"))

\* another writer changes the user's record between the lookup and the write
OtherWriter(r) ==
    /\ pc \in {"rv_update", "rv_get", "rv_delete", "update", "invite"}
    /\ ShareFrame
    /\ others < MaxOthers
    /\ r # remote
    /\ remote' = r
    /\ others' = others + 1
    /\ UNCHANGED <<fallback, library_ids, pc, valid, existing, result, writes,
                   lookups, before, calls, prev>>

\* ------------------------------------------------------------ remove_user
\* str.lower() on the strings of the model
Lower(s) ==
    CASE s = "Bob" -> "bob"
      [] s = "AL@X" -> "al@x"
      [] s = "A@X" -> "a@x"
      [] OTHER -> s

\* what an operator may pass as user_identifier
Identifiers == {"", "bob", "AL@X"}

\* the friends account.users() may return ("" is an attribute that is not set)
FriendPool == [username : {"", "Bob"}, email : {"", "al@x"}, title : {"", "Bob"}]

\* the pending invites account.pendingInvites() may return
InvitePool == [email : {"", "al@x"}, username : {"", "Bob"}]

NoUser == [found |-> FALSE, user |-> [username |-> "", email |-> "", title |-> ""]]

Found(f) == [found |-> TRUE, user |-> f]

\* line 352: friend.username and friend.username.lower() == user_identifier_lower
ByUsername(f, l) == f.username # "" /\ Lower(f.username) = l

\* line 357: friend.email and friend.email.lower() == user_identifier_lower
ByEmail(f, l) == f.email # "" /\ Lower(f.email) = l

\* line 362: friend.title and friend.title.lower() == user_identifier_lower
ByTitle(f, l) == f.title # "" /\ Lower(f.title) = l

\* lines 351-365: the branch of the loop body taken for one friend
FieldMatched(f, l) ==
    CASE ByUsername(f, l) -> "username"
      [] ByEmail(f, l) -> "email"
      [] ByTitle(f, l) -> "title"
      [] OTHER -> "none"

\* a plausible slip: the scan keeps going and the last match wins (no break)
RECURSIVE ScanFriendsLast(_, _, _)
ScanFriendsLast(fs, l, i) ==
    IF i > Len(fs) THEN 0
    ELSE LET later == ScanFriendsLast(fs, l, i + 1)
         IN  IF later # 0 THEN later
             ELSE IF FieldMatched(fs[i], l) # "none" THEN i ELSE 0

\* lines 350-365: the index of the friend the scan stops at (0: no match)
RECURSIVE ScanFriends(_, _, _)
ScanFriends(fs, l, i) ==
    IF i > Len(fs) THEN 0
    ELSE IF FieldMatched(fs[i], l) # "none" THEN i
    ELSE ScanFriends(fs, l, i + 1)

\* lines 388-391: one pending invite against the identifier
InviteMatches(inv, id) ==
    LET invite_email == IF inv.email # "" THEN Lower(inv.email) ELSE ""
        invite_username == IF inv.username # "" THEN Lower(inv.username) ELSE ""
    IN  invite_email = Lower(id) \/ invite_username = Lower(id)

\* a plausible slip: the loop has no break, the last matching invite is kept
RECURSIVE ScanInvitesLast(_, _, _)
ScanInvitesLast(invs, id, i) ==
    IF i > Len(invs) THEN 0
    ELSE LET later == ScanInvitesLast(invs, id, i + 1)
         IN  IF later # 0 THEN later
             ELSE IF InviteMatches(invs[i], id) THEN i ELSE 0

\* lines 386-396: the index of the invite that is cancelled (0: none)
RECURSIVE ScanInvites(_, _, _)
ScanInvites(invs, id, i) ==
    IF i > Len(invs) THEN 0
    ELSE IF InviteMatches(invs[i], id) THEN i
    ELSE ScanInvites(invs, id, i + 1)

RResult(success, message) == [success |-> success, message |-> message]

RFinish(res) ==
    /\ rpc' = "done"
    /\ rresult' = res

\* remove_user touches nothing of the other commands
RemoveFrame ==
    UNCHANGED <<shareVars, listVars, activityVars, mainVars, statsVars>>

\* lines 326-334: set the deadline and connect to the account
RemoveStart(conn) ==
    /\ rpc = "idle"
    /\ RemoveFrame
    /\ UNCHANGED <<elsewhere, user_identifier, friends, pending, existing_user,
                   matched_by, target, rreads, rwrites>>
    /\ IF conn = "ok"
       THEN rpc' = "direct" /\ UNCHANGED rresult
       ELSE RFinish(RResult(FALSE, "error"))

\* the accounts account.user(user_identifier) may answer with
DirectMatch(f, id) ==
    LET l == Lower(id)
    IN  ByUsername(f, l) \/ ByEmail(f, l) \/ ByTitle(f, l)

\* lines 339-344: account.user(user_identifier) answers with an account
DirectFound(f) ==
    /\ rpc = "direct"
    /\ RemoveFrame
    /\ DirectMatch(f, user_identifier)
    /\ existing_user' = Found(f)
    /\ matched_by' = "direct"
    /\ rpc' = "remove"
    /\ UNCHANGED <<elsewhere, user_identifier, friends, pending, target,
                   rresult, rreads, rwrites>>

\* lines 339-344 and 420-427: account.user() raises NotFound, or another error
DirectMissed(o) ==
    /\ rpc = "direct"
    /\ RemoveFrame
    /\ UNCHANGED <<elsewhere, user_identifier, friends, pending, existing_user,
                   matched_by, target, rwrites>>
    /\ rreads' = IF o = "notfound" THEN rreads \cup {"direct"} ELSE rreads
    /\ IF o = "notfound"
       THEN rpc' = "scan" /\ UNCHANGED rresult
       ELSE RFinish(RResult(FALSE, "error"))

\* lines 346-365: account.users() and the scan of the friends list
FriendsScan(fs) ==
    /\ rpc = "scan"
    /\ RemoveFrame
    /\ friends' = fs
    /\ LET i == ScanFriends(fs, Lower(user_identifier), 1)
       IN  /\ existing_user' = IF i = 0 THEN NoUser ELSE Found(fs[i])
           /\ matched_by' = IF i = 0 THEN "none"
                            ELSE FieldMatched(fs[i], Lower(user_identifier))
           /\ rpc' = IF i = 0 THEN "invites" ELSE "remove"
           /\ rreads' = IF i = 0 THEN rreads \cup {"users"} ELSE rreads
    /\ UNCHANGED <<elsewhere, user_identifier, pending, target, rresult,
                   rwrites>>

\* lines 347 and 420-427: account.users() raises
FriendsScanFailed ==
    /\ rpc = "scan"
    /\ RemoveFrame
    /\ RFinish(RResult(FALSE, "error"))
    /\ UNCHANGED <<elsewhere, user_identifier, friends, pending, existing_user,
                   matched_by, target, rreads, rwrites>>

\* lines 367-377 and 420-427: account.removeFriend(existing_user).  The call
\* names no server: the friend leaves the account, and with it every server
\* the account shares.
RemoveFriend(o) ==
    /\ rpc = "remove"
    /\ RemoveFrame
    /\ rwrites' = Append(rwrites, [op |-> "removeFriend", user |-> existing_user.user,
                                   invite |-> 0, out |-> o])
    /\ RFinish(IF o = "ack" THEN RResult(TRUE, "Successfully removed")
                            ELSE RResult(FALSE, "error"))
    /\ elsewhere' = IF o = "ack" THEN FALSE ELSE elsewhere
    /\ UNCHANGED <<user_identifier, friends, pending, existing_user, matched_by,
                   target, rreads>>

\* lines 381-391 and 398-410: account.pendingInvites() and the scan of the invites
PendingInvites(invs) ==
    /\ rpc = "invites"
    /\ RemoveFrame
    /\ pending' = invs
    /\ target' = ScanInvites(invs, user_identifier, 1)
    /\ rreads' = rreads \cup {"invites"}
    /\ IF target' = 0
       THEN RFinish(RResult(TRUE, "User not found on server"))
       ELSE rpc' = "cancel" /\ UNCHANGED rresult
    /\ UNCHANGED <<elsewhere, user_identifier, friends, existing_user,
                   matched_by, rwrites>>

\* lines 383 and 420-427: account.pendingInvites() raises
PendingInvitesFailed ==
    /\ rpc = "invites"
    /\ RemoveFrame
    /\ RFinish(RResult(FALSE, "error"))
    /\ UNCHANGED <<elsewhere, user_identifier, friends, pending, existing_user,
                   matched_by, target, rreads, rwrites>>

\* a plausible slip: no break after cancelInvite, the loop goes on to the
\* next matching invite
CancelInviteNoBreak(o) ==
    /\ rpc = "cancel"
    /\ RemoveFrame
    /\ rwrites' = Append(rwrites, [op |-> "cancelInvite", user |-> NoUser.user,
                                   invite |-> target, out |-> o])
    /\ LET next == ScanInvites(pending, user_identifier, target + 1)
       IN  IF o = "ack" /\ next # 0
           THEN target' = next /\ UNCHANGED <<rpc, rresult>>
           ELSE /\ UNCHANGED target
                /\ RFinish(IF o = "ack"
                           THEN RResult(TRUE, "Canceled pending invite")
                           ELSE RResult(FALSE, "error"))
    /\ UNCHANGED <<elsewhere, user_identifier, friends, pending, existing_user,
                   matched_by, rreads>>

\* lines 392-404 and 420-427: account.cancelInvite(invite)
CancelInvite(o) ==
    /\ rpc = "cancel"
    /\ RemoveFrame
    /\ rwrites' = Append(rwrites, [op |-> "cancelInvite", user |-> NoUser.user,
                                   invite |-> target, out |-> o])
    /\ RFinish(IF o = "ack" THEN RResult(TRUE, "Canceled pending invite")
                            ELSE RResult(FALSE, "error"))
    /\ UNCHANGED <<elsewhere, user_identifier, friends, pending, existing_user,
                   matched_by, target, rreads>>

\* lines 412-419: the alarm goes off while a remote call is in flight
RemoveTimeout ==
    /\ rpc \notin {"idle", "done"}
    /\ RemoveFrame
    /\ RFinish(RResult(FALSE, "Operation timed out"))
    /\ UNCHANGED <<elsewhere, user_identifier, friends, pending, existing_user,
                   matched_by, target, rreads, rwrites>>

FriendLists == SeqsUpTo(FriendPool, MaxFriends)

InviteLists == SeqsUpTo(InvitePool, MaxInvites)

\* ------------------------------------- get_all_users_with_library_access
\* a <Section> element: its key attribute and whether shared="1"
Section(key, shared) == [key |-> key, shared |-> shared]

\* <SharedServer> elements the shared_servers endpoint may return ("" is an
\* attribute that is not set; accepted / invited: acceptedAt / invitedAt is set)
SharePool ==
    { [email |-> "A@X", username |-> "u", user_id |-> 7, has_id |-> TRUE,
       accepted |-> TRUE, invited |-> TRUE,
       sections |-> <<Section("1", TRUE)>>],
      [email |-> "a@x", username |-> "v", user_id |-> 8, has_id |-> TRUE,
       accepted |-> FALSE, invited |-> TRUE,
       sections |-> <<Section("9", TRUE), Section("2", FALSE)>>],
      [email |-> "b@x", username |-> "w", user_id |-> 9, has_id |-> TRUE,
       accepted |-> TRUE, invited |-> FALSE,
       sections |-> <<>>],
      [email |-> "b@x", username |-> "", user_id |-> 9, has_id |-> TRUE,
       accepted |-> FALSE, invited |-> FALSE,
       sections |-> <<Section("2", TRUE)>>],
      [email |-> "", username |-> "x", user_id |-> 5, has_id |-> TRUE,
       accepted |-> TRUE, invited |-> TRUE,
       sections |-> <<Section("1", TRUE)>>],
      [email |-> "d@x", username |-> "y", user_id |-> 0, has_id |-> FALSE,
       accepted |-> FALSE, invited |-> FALSE,
       sections |-> <<Section("1", TRUE)>>] }

\* <User> elements the home users endpoint may return; the id of a home user
\* is its position in the response
HomePool ==
    { [email |-> "A@X", title |-> "h", admin |-> FALSE, restricted |-> FALSE],
      [email |-> "c@x", title |-> "h", admin |-> FALSE, restricted |-> FALSE],
      [email |-> "c@x", title |-> "h", admin |-> FALSE, restricted |-> TRUE],
      [email |-> "c@x", title |-> "h", admin |-> TRUE, restricted |-> FALSE],
      [email |-> "", title |-> "h", admin |-> FALSE, restricted |-> FALSE] }

\* the <Section> lists a per-user sharing lookup may answer with
SectionLists ==
    { <<>>, <<Section("1", TRUE)>>, <<Section("2", FALSE)>>,
      <<Section("9", TRUE), Section("1", FALSE)>> }

ShareLists == SeqsUpTo(SharePool, MaxShares)

HomeLists == SeqsUpTo(HomePool, MaxHome)

\* lines 746-751 and 828-832: the keys of the sections flagged shared="1"
RECURSIVE SharedKeys(_)
SharedKeys(sections) ==
    IF sections = <<>> THEN <<>>
    ELSE LET section == Head(sections)
         IN  (IF section.key # "" /\ section.shared THEN <<section.key>> ELSE <<>>)
             \o SharedKeys(Tail(sections))

\* a plausible slip: every invited account is flagged as a pending invite
FriendRecordPendingWhenInvited(s) ==
    [email |-> Lower(s.email),
     username |-> s.username,
     plex_user_id |-> s.user_id,
     library_ids |-> SharedKeys(s.sections),
     is_pending_invite |-> s.invited,
     is_active_friend |-> s.accepted,
     is_home_user |-> FALSE]

\* lines 753-765: the record appended for one shared server
FriendRecord(s) ==
    [email |-> Lower(s.email),
     username |-> s.username,
     plex_user_id |-> s.user_id,
     library_ids |-> SharedKeys(s.sections),
     is_pending_invite |-> (~s.accepted /\ s.invited),
     is_active_friend |-> s.accepted,
     is_home_user |-> FALSE]

\* line 743: if email and username and user_id
Complete(s) == s.email # "" /\ s.username # "" /\ s.has_id

\* lines 736-765: the loop over the shared servers, appending to users_list
RECURSIVE FriendRecords(_)
FriendRecords(recs) ==
    IF recs = <<>> THEN <<>>
    ELSE (IF Complete(Head(recs)) THEN <<FriendRecord(Head(recs))>> ELSE <<>>)
         \o FriendRecords(Tail(recs))

\* lines 754-755: the emails added to seen_emails by the loop
FriendEmails(recs) ==
    {Lower(recs[i].email) : i \in {j \in DOMAIN recs : Complete(recs[j])}}

\* lines 778-787: all_library_ids as read from the server's /library/sections
LibraryKeys == [k \in 1..NumSections |-> StrOf(k)]

\* a plausible slip: a failed lookup of an unrestricted user means full access
HomeLibraryIdsFailOpen(o, sections, is_restricted, all) ==
    IF o = "200"
    THEN LET ids == SharedKeys(sections)
         IN  IF ~is_restricted /\ ids = <<>> THEN all ELSE ids
    ELSE IF is_restricted THEN <<>> ELSE all

\* lines 819-849: library_ids of a home user from the per-server sharing lookup
HomeLibraryIds(o, sections, is_restricted, all) ==
    IF o = "200"
    THEN LET ids == SharedKeys(sections)
         IN  IF ~is_restricted /\ ids = <<>> THEN all ELSE ids
    ELSE <<>>

\* lines 853-861: the record appended for one home user
HomeRecord(h, id, ids) ==
    [email |-> Lower(h.email),
     username |-> h.title,
     plex_user_id |-> id,
     library_ids |-> ids,
     is_pending_invite |-> FALSE,
     is_active_friend |-> FALSE,
     is_home_user |-> TRUE]

\* lines 871-887: the counts and the dict returned
ListSuccess(list) ==
    [success |-> TRUE, message |-> "",
     active_count |->
         Cardinality({i \in DOMAIN list : ~list[i].is_pending_invite}),
     pending_count |->
         Cardinality({i \in DOMAIN list : list[i].is_pending_invite}),
     home_users_count |->
         Cardinality({i \in DOMAIN list : list[i].is_home_user})]

\* lines 889-906: the dict returned by the outer handlers
ListFailure(message) ==
    [success |-> FALSE, message |-> message,
     active_count |-> 0, pending_count |-> 0, home_users_count |-> 0]

NoListResult == ListFailure("")

\* get_all_users_with_library_access touches nothing of the other commands
ListFrame ==
    UNCHANGED <<shareVars, removeVars, activityVars, mainVars, statsVars>>

\* lines 716-722: set_timeout(60), the empty list and the empty set
ListStart ==
    /\ lpc = "idle"
    /\ apc = "idle"      \* main runs one command per process (lines 921-972)
    /\ ListFrame
    /\ lpc' = "shares"
    /\ alarm' = TRUE
    /\ UNCHANGED <<users_list, seen_emails, all_library_ids, home_users, hi,
                   home_log, shares_status, lresult>>

\* lines 727-768: GET shared_servers and the loop over its <SharedServer>s
ListShares(status, recs) ==
    /\ lpc = "shares"
    /\ ListFrame
    /\ status # 200 => recs = <<>>
    /\ shares_status' = status
    /\ users_list' = IF status = 200 THEN FriendRecords(recs) ELSE users_list
    /\ seen_emails' = IF status = 200 THEN FriendEmails(recs) ELSE seen_emails
    /\ lpc' = "catalog"
    /\ UNCHANGED <<all_library_ids, home_users, hi, home_log, lresult, alarm>>

\* lines 730 and 889-906: the GET raises, or the alarm goes off during it
ListSharesFailed(o) ==
    /\ lpc = "shares"
    /\ ListFrame
    /\ o = "timeout" => alarm
    /\ lpc' = "done"
    /\ lresult' = ListFailure(IF o = "timeout" THEN "Operation timed out" ELSE "error")
    /\ alarm' = FALSE
    /\ UNCHANGED <<users_list, seen_emails, all_library_ids, home_users, hi,
                   home_log, shares_status>>

\* lines 778-789: GET /library/sections; a status other than 200, an error and
\* the alarm all leave all_library_ids empty
ListCatalog(o) ==
    /\ lpc = "catalog"
    /\ ListFrame
    /\ o = "timeout" => alarm
    /\ all_library_ids' = IF o = "200" THEN LibraryKeys ELSE <<>>
    /\ alarm' = IF o = "timeout" THEN FALSE ELSE alarm
    /\ lpc' = "home"
    /\ UNCHANGED <<users_list, seen_emails, home_users, hi, home_log,
                   shares_status, lresult>>

\* lines 871-887: clear_timeout() and the return that follows the two parts
ListReturn(list) ==
    /\ lpc' = "done"
    /\ lresult' = ListSuccess(list)
    /\ alarm' = FALSE

\* lines 793-800 and 865-868: GET home/users; a status other than 200, an error
\* and the alarm all end the home part with the list as it stands
ListHomeUsers(o, hs) ==
    /\ lpc = "home"
    /\ ListFrame
    /\ o = "timeout" => alarm
    /\ o # "200" => hs = <<>>
    /\ home_users' = hs
    /\ hi' = 1
    /\ IF hs = <<>>
       THEN ListReturn(users_list)
       ELSE lpc' = "home_iter" /\ UNCHANGED <<lresult, alarm>>
    /\ UNCHANGED <<users_list, seen_emails, all_library_ids, home_log,
                   shares_status>>

\* lines 808-815: the home users the loop passes over
Skipped(h) == h.admin \/ h.email = "" \/ Lower(h.email) \in seen_emails

\* the loop moves on to the next <User>, or ends and the function returns
NextUser(list) ==
    /\ hi' = hi + 1
    /\ IF hi = Len(home_users)
       THEN ListReturn(list)
       ELSE lpc' = "home_iter" /\ UNCHANGED lresult

\* lines 800-815: one iteration of the loop that ends in `continue`
HomeSkip ==
    /\ lpc = "home_iter"
    /\ ListFrame
    /\ Skipped(home_users[hi])
    /\ home_log' = Append(home_log, [id |-> hi, lookup |-> "skipped",
                                      sections |-> <<>>, library_ids |-> <<>>])
    /\ NextUser(users_list)
    /\ IF hi = Len(home_users) THEN TRUE ELSE UNCHANGED alarm
    /\ UNCHANGED <<users_list, seen_emails, all_library_ids, home_users,
                   shares_status>>

\* lines 819-862: one iteration with the per-server sharing lookup of the user
HomeLookup(o, sections) ==
    /\ lpc = "home_iter"
    /\ ListFrame
    /\ ~Skipped(home_users[hi])
    /\ o = "timeout" => alarm
    /\ o # "200" => sections = <<>>
    /\ LET user == home_users[hi]
           ids == HomeLibraryIds(o, sections, user.restricted, all_library_ids)
           list == IF ids # <<>>
                   THEN Append(users_list, HomeRecord(user, hi, ids))
                   ELSE users_list
       IN  /\ users_list' = list
           /\ seen_emails' = IF ids # <<>>
                             THEN seen_emails \cup {Lower(user.email)}
                             ELSE seen_emails
           /\ home_log' = Append(home_log, [id |-> hi, lookup |-> o,
                                            sections |-> sections,
                                            library_ids |-> ids])
           /\ NextUser(list)
           /\ IF hi = Len(home_users) THEN TRUE
              ELSE alarm' = IF o = "timeout" THEN FALSE ELSE alarm
    /\ UNCHANGED <<all_library_ids, home_users, shares_status>>

ListIdle ==
    /\ lpc = "idle"
    /\ users_list = <<>>
    /\ seen_emails = {}
    /\ all_library_ids = <<>>
    /\ home_users = <<>>
    /\ hi = 1
    /\ home_log = <<>>
    /\ shares_status = 0
    /\ lresult = NoListResult
    /\ alarm = FALSE

\* ------------------------------------------- get_all_users_with_activity
\* lines 566-570: user_data of one shared server
UserData(s) ==
    [email |-> Lower(s.email), username |-> s.username, account_id |-> s.user_id]

\* lines 559-576: all_users, the complete shared servers with acceptedAt set
RECURSIVE AllUsers(_)
AllUsers(recs) ==
    IF recs = <<>> THEN <<>>
    ELSE LET s == Head(recs)
         IN  (IF Complete(s) /\ s.accepted THEN <<UserData(s)>> ELSE <<>>)
             \o AllUsers(Tail(recs))

\* lines 559-576: pending_users, the complete shared servers without acceptedAt
\* and with invitedAt set
RECURSIVE PendingUsers(_)
PendingUsers(recs) ==
    IF recs = <<>> THEN <<>>
    ELSE LET s == Head(recs)
         IN  (IF Complete(s) /\ ~s.accepted /\ s.invited
                 THEN <<UserData(s)>> ELSE <<>>)
             \o PendingUsers(Tail(recs))

\* lines 589-597 and 616-624: the record of an active user
ActiveRecord(u, seen) ==
    [email |-> u.email, username |-> u.username, user_id |-> u.account_id,
     last_seen_at |-> seen,
     is_pending_invite |-> FALSE, is_active_friend |-> TRUE]

\* lines 658-667: the record of a pending invite
InviteRecord(u) ==
    [email |-> u.email, username |-> u.username, user_id |-> u.account_id,
     last_seen_at |-> FALSE,
     is_pending_invite |-> TRUE, is_active_friend |-> FALSE]

\* lines 588-597: the users returned without watch history
RECURSIVE WithoutHistory(_)
WithoutHistory(us) ==
    IF us = <<>> THEN <<>>
    ELSE <<ActiveRecord(Head(us), FALSE)>> \o WithoutHistory(Tail(us))

\* lines 657-667: pending_invites_list
RECURSIVE InviteRecords(_)
InviteRecords(us) ==
    IF us = <<>> THEN <<>>
    ELSE <<InviteRecord(Head(us))>> \o InviteRecords(Tail(us))

\* the dicts returned: success, message, total_users, total_pending
ActivityResult(success, message, users, total_pending) ==
    [success |-> success, message |-> message, total_users |-> Len(users),
     total_pending |-> total_pending]

NoActivityResult == ActivityResult(FALSE, "", <<>>, 0)

\* get_all_users_with_activity touches nothing of the other commands
ActivityFrame ==
    UNCHANGED <<shareVars, removeVars, listVars, mainVars, statsVars>>

\* lines 529-536: set_timeout(90) and the two empty lists
ActivityStart ==
    /\ apc = "idle"
    /\ lpc = "idle"      \* main runs one command per process (lines 921-972)
    /\ ActivityFrame
    /\ apc' = "shares"
    /\ aalarm' = TRUE
    /\ UNCHANGED <<all_users, pending_users, activity_users_list,
                   pending_invites_list, ai, aresult>>

\* lines 538-578: GET shared_servers; a status other than 200 returns the
\* failure dict with the alarm still set
ActivityShares(status, recs) ==
    /\ apc = "shares"
    /\ ActivityFrame
    /\ status # 200 => recs = <<>>
    /\ all_users' = AllUsers(recs)
    /\ pending_users' = PendingUsers(recs)
    /\ IF status = 200
       THEN apc' = "connect" /\ UNCHANGED aresult
       ELSE /\ apc' = "done"
            /\ aresult' = ActivityResult(FALSE, "Shared Servers API returned HTTP",
                                         <<>>, 0)
    /\ UNCHANGED <<activity_users_list, pending_invites_list, ai, aalarm>>

\* lines 543 and 686-703: the GET raises, or the alarm goes off during it
ActivitySharesFailed(o) ==
    /\ apc = "shares"
    /\ ActivityFrame
    /\ apc' = "done"
    /\ aresult' = ActivityResult(FALSE, IF o = "timeout" THEN "Operation timed out"
                                        ELSE "error", <<>>, 0)
    /\ aalarm' = FALSE
    /\ UNCHANGED <<all_users, pending_users, activity_users_list,
                   pending_invites_list, ai>>

\* lines 669-684: pending_invites_list, clear_timeout() and the return
ActivityReturn(users) ==
    /\ apc' = "done"
    /\ pending_invites_list' = InviteRecords(pending_users)
    /\ aresult' = ActivityResult(TRUE, "", users, Len(pending_users))
    /\ aalarm' = FALSE

\* lines 580-607: PlexServer(...); when it raises (the alarm included) the
\* active users are returned without history, with the alarm as it is
ActivityConnect(o) ==
    /\ apc = "connect"
    /\ ActivityFrame
    /\ o = "timeout" => aalarm
    /\ ai' = 1
    /\ CASE o # "ok" ->
              /\ activity_users_list' = WithoutHistory(all_users)
              /\ apc' = "done"
              /\ aresult' = ActivityResult(TRUE, "", activity_users_list', 0)
              /\ aalarm' = IF o = "timeout" THEN FALSE ELSE aalarm
              /\ UNCHANGED pending_invites_list
         [] o = "ok" /\ all_users = <<>> ->
              /\ ActivityReturn(activity_users_list)
              /\ UNCHANGED activity_users_list
         [] OTHER ->
              /\ apc' = "history"
              /\ UNCHANGED <<activity_users_list, pending_invites_list, aresult,
                             aalarm>>
    /\ UNCHANGED <<all_users, pending_users>>

\* lines 609-654: one iteration of the loop: plex.history() of one user
ActivityHistory(o) ==
    /\ apc = "history"
    /\ ActivityFrame
    /\ o = "timeout" => aalarm
    /\ LET users == Append(activity_users_list,
                           ActiveRecord(all_users[ai], o = "seen"))
       IN  /\ activity_users_list' = users
           /\ ai' = ai + 1
           /\ IF ai = Len(all_users)
              THEN ActivityReturn(users)
              ELSE /\ apc' = "history"
                   /\ aalarm' = IF o = "timeout" THEN FALSE ELSE aalarm
                   /\ UNCHANGED <<pending_invites_list, aresult>>
    /\ UNCHANGED <<all_users, pending_users>>

ActivityIdle ==
    /\ apc = "idle"
    /\ all_users = <<>>
    /\ pending_users = <<>>
    /\ activity_users_list = <<>>
    /\ pending_invites_list = <<>>
    /\ ai = 1
    /\ aresult = NoActivityResult
    /\ aalarm = FALSE

\* ------------------------------------------------------------------- main
\* the budgets passed to set_timeout (seconds)
GlobalBudget == 120

ShareBudget == 60

RemoveBudget == 60

CheckBudget == 15

ActivityBudget == 90

ListBudget == 60

\* time is observed in steps of the smallest budget
Quantum == CheckBudget

Commands == {"share_libraries", "check_user_info", "remove_user",
             "get_all_users_with_activity", "get_all_users_with_library_access"}

\* sys.argv: the command ("" when there is none), whether the arguments the
\* command needs are all there, and what json.loads makes of them
Argvs ==
    {a \in [command : Commands \cup {"", "bogus"}, enough : BOOLEAN,
            json : {"object", "other", "invalid"}] :
        a.command = "" => (~a.enough /\ a.json = "object")}

\* a slip: the verification uses the budget of the mutating commands
BudgetOfMutation(command) ==
    CASE command = "get_all_users_with_activity" -> ActivityBudget
      [] OTHER -> ShareBudget

\* the seconds each command passes to set_timeout
Budget(command) ==
    CASE command = "share_libraries" -> ShareBudget
      [] command = "remove_user" -> RemoveBudget
      [] command = "check_user_info" -> CheckBudget
      [] command = "get_all_users_with_activity" -> ActivityBudget
      [] OTHER -> ListBudget

\* the commands with an inner `except Exception` around a remote call (lines
\* 175, 585, 649, 789, 846, 868), which also catches the alarm's TimeoutError
Swallows(command) ==
    command \in {"share_libraries", "get_all_users_with_activity",
                 "get_all_users_with_library_access"}

\* a JSON document written to stdout: the value of its "success" key, and
\* whether it has a "message", an "error" and a "warning" key; timeout: the
\* text says the operation timed out
Doc(success, message, error, warning, timeout) ==
    [success |-> success, message |-> message, error |-> error,
     warning |-> warning, timeout |-> timeout]

\* line 912
NoCommandDoc == Doc("absent", FALSE, TRUE, FALSE, FALSE)

\* lines 975-984
UsageDoc == Doc("absent", FALSE, TRUE, FALSE, FALSE)

\* line 992
JsonErrorDoc == Doc("absent", FALSE, TRUE, FALSE, FALSE)

\* line 995
ErrorDoc == Doc("false", FALSE, TRUE, FALSE, FALSE)

\* lines 987-990
TimeoutDoc == Doc("false", FALSE, TRUE, FALSE, TRUE)

\* the kinds of dict each operation returns
ResultKinds(command) ==
    {"success", "failure", "timeout"}
        \cup (IF command = "share_libraries" THEN {"warning"} ELSE {})

\* json.dumps of the dict an operation returned; the success dicts of
\* check_user_info (lines 494-499), get_all_users_with_activity (lines 599-607,
\* 676-684) and get_all_users_with_library_access (lines 879-887) have no message
ResultDoc(command, kind) ==
    CASE kind = "success" ->
            Doc("true", command \in {"share_libraries", "remove_user"},
                FALSE, FALSE, FALSE)
      [] kind = "warning" -> Doc("true", TRUE, FALSE, TRUE, FALSE)
      [] kind = "failure" -> Doc("false", TRUE, FALSE, FALSE, FALSE)
      [] OTHER -> Doc("false", TRUE, FALSE, FALSE, TRUE)

NotExpired == [at |-> "none", time |-> 0]

\* the SIGALRM is due
Due == armed /\ now >= alarm_at

\* main touches nothing of the models of the single operations
MainFrame ==
    UNCHANGED <<shareVars, removeVars, listVars, activityVars, statsVars>>

\* lines 911-913: no command
MainNoCommand ==
    /\ mpc = "start"
    /\ MainFrame
    /\ argv.command = ""
    /\ docs' = Append(docs, NoCommandDoc)
    /\ mpc' = "exit"
    /\ exit_status' = 0
    /\ UNCHANGED <<argv, now, armed, alarm_at, op_start, region, op_result,
                   expired>>

\* lines 915-918: set_timeout(120)
MainArm ==
    /\ mpc = "start"
    /\ MainFrame
    /\ argv.command # ""
    /\ armed' = TRUE
    /\ alarm_at' = now + GlobalBudget
    /\ mpc' = "try"
    /\ UNCHANGED <<argv, now, op_start, region, op_result, expired, docs,
                   exit_status>>

\* lines 996-997 and 999-1000: finally clear_timeout(), main returns
MainLeave ==
    /\ armed' = FALSE
    /\ mpc' = "exit"
    /\ exit_status' = 0

\* lines 920-984 and 991-997: the branch for the command; json.loads of the
\* arguments; the first statements of the operation up to its set_timeout
MainDispatch ==
    /\ mpc = "try"
    /\ MainFrame
    /\ UNCHANGED <<argv, now, op_result, expired>>
    /\ IF argv.command \in Commands /\ argv.enough
       THEN CASE argv.json = "invalid" ->
                    /\ docs' = Append(docs, JsonErrorDoc)
                    /\ MainLeave
                    /\ UNCHANGED <<alarm_at, op_start, region>>
              [] argv.json = "other" ->
                    \* server_config.get raises AttributeError
                    /\ docs' = Append(docs, ErrorDoc)
                    /\ MainLeave
                    /\ UNCHANGED <<alarm_at, op_start, region>>
              [] OTHER ->
                    /\ mpc' = "op"
                    /\ op_start' = now
                    /\ armed' = TRUE
                    /\ alarm_at' = now + Budget(argv.command)
                    /\ region' = "body"
                    /\ UNCHANGED <<docs, exit_status>>
       ELSE /\ docs' = Append(docs, UsageDoc)
            /\ MainLeave
            /\ UNCHANGED <<alarm_at, op_start, region>>

\* time passes while a remote call is in flight and while the result is
\* serialised and written
Tick ==
    /\ mpc \in {"op", "returned", "printed"}
    /\ MainFrame
    /\ ~Due
    /\ now + Quantum <= MaxTicks * Quantum
    /\ now' = now + Quantum
    /\ UNCHANGED <<argv, mpc, armed, alarm_at, op_start, region, op_result,
                   expired, docs, exit_status>>

\* the operation enters an inner try whose handler is `except Exception`
OpEnterInner ==
    /\ mpc = "op"
    /\ MainFrame
    /\ ~Due
    /\ Swallows(argv.command)
    /\ region = "body"
    /\ region' = "inner"
    /\ UNCHANGED <<argv, mpc, now, armed, alarm_at, op_start, op_result,
                   expired, docs, exit_status>>

\* the inner try ends, or its handler has logged the error
OpLeaveInner ==
    /\ mpc = "op"
    /\ MainFrame
    /\ ~Due
    /\ region = "inner"
    /\ region' = "body"
    /\ UNCHANGED <<argv, mpc, now, armed, alarm_at, op_start, op_result,
                   expired, docs, exit_status>>

\* clear_timeout() and a return statement of the operation, from its body or
\* from its `except Exception` handler
OpReturn(kind) ==
    /\ mpc = "op"
    /\ MainFrame
    /\ ~Due
    /\ region = "body"
    /\ kind \in ResultKinds(argv.command) \ {"timeout"}
    /\ op_result' = kind
    /\ armed' = FALSE
    /\ mpc' = "returned"
    /\ UNCHANGED <<argv, now, alarm_at, op_start, region, expired, docs,
                   exit_status>>

\* lines 545-551 and 585-607: the two returns of get_all_users_with_activity
\* that are not preceded by clear_timeout()
OpReturnArmed(kind) ==
    /\ mpc = "op"
    /\ MainFrame
    /\ ~Due
    /\ argv.command = "get_all_users_with_activity"
    /\ \/ kind = "failure" /\ region = "body"
       \/ kind = "success" /\ region = "inner"
    /\ op_result' = kind
    /\ mpc' = "returned"
    /\ UNCHANGED <<argv, now, armed, alarm_at, op_start, region, expired, docs,
                   exit_status>>

\* the alarm goes off inside the operation: `except TimeoutError` of the
\* operation returns the timeout dict, unless an inner `except Exception`
\* catches the TimeoutError first and the operation goes on
OpAlarm ==
    /\ mpc = "op"
    /\ MainFrame
    /\ Due
    /\ armed' = FALSE
    /\ expired' = [at |-> region, time |-> now]
    /\ IF region = "inner"
       THEN /\ region' = "body"
            /\ UNCHANGED <<mpc, op_result>>
       ELSE /\ op_result' = "timeout"
            /\ mpc' = "returned"
            /\ UNCHANGED region
    /\ UNCHANGED <<argv, now, alarm_at, op_start, docs, exit_status>>

\* lines 932, 943, 954, 963, 972: print(json.dumps(result))
MainPrint ==
    /\ mpc = "returned"
    /\ MainFrame
    /\ ~Due
    /\ docs' = Append(docs, ResultDoc(argv.command, op_result))
    /\ mpc' = "printed"
    /\ UNCHANGED <<argv, now, armed, alarm_at, op_start, region, op_result,
                   expired, exit_status>>

\* lines 996-997: the try block ends
MainFinally ==
    /\ mpc = "printed"
    /\ MainFrame
    /\ ~Due
    /\ MainLeave
    /\ UNCHANGED <<argv, now, alarm_at, op_start, region, op_result, expired,
                   docs>>

\* lines 986-990 and 996-997: the alarm goes off in main's try block, after the
\* operation has returned
MainAlarm ==
    /\ mpc \in {"returned", "printed"}
    /\ MainFrame
    /\ Due
    /\ expired' = [at |-> mpc, time |-> now]
    /\ docs' = Append(docs, TimeoutDoc)
    /\ MainLeave
    /\ UNCHANGED <<argv, now, alarm_at, op_start, region, op_result>>

MainIdle ==
    /\ mpc = "start"
    /\ now = 0
    /\ armed = FALSE
    /\ alarm_at = 0
    /\ op_start = 0
    /\ region = "body"
    /\ op_result = "none"
    /\ expired = NotExpired
    /\ docs = <<>>
    /\ exit_status = 0

\* ------------------------------ plex_watch_statistics.py: the collector
\* line 81: max_retries
max_retries == 3

\* the lists of servers the collector may be given
ServerConfigs == {[i \in 1..n |-> i] : n \in 0..MaxServers}

\* a slip: the first failure of the history fetch is raised at once
RetriesNever(a) == FALSE

\* line 87: if attempt < max_retries - 1 (sleep and try again, else raise)
Retries(a) == a < max_retries - 1

\* lines 250-260 and 285: the document of a completed collection
StatsDoc == [success |-> TRUE]

NoStats == [success |-> FALSE]

\* the collector touches nothing of plex_service_v2.py
StatsFrame ==
    UNCHANGED <<shareVars, removeVars, listVars, activityVars, mainVars>>

\* the iteration of one server ends as `how`: the for loop moves to the next
\* server, or ends and the aggregated document is returned and printed
\* (lines 36, 209-270, 282-285)
NextServer(how) ==
    /\ handled' = Append(handled, how)
    /\ attempt' = 0
    /\ IF si = Len(servers_config)
       THEN spc' = "done" /\ stats' = StatsDoc /\ UNCHANGED si
       ELSE spc' = "connect" /\ si' = si + 1 /\ UNCHANGED stats

\* lines 24-36: the empty aggregates and the start of the loop over the servers
StatsStart ==
    /\ spc = "idle"
    /\ StatsFrame
    /\ IF servers_config = <<>>
       THEN spc' = "done" /\ stats' = StatsDoc
       ELSE spc' = "connect" /\ UNCHANGED stats
    /\ UNCHANGED <<servers_config, si, attempt, fetch_log, handled>>

\* lines 37-39 and 205-207: PlexServer(...) connects, or raises and the server
\* is passed over
StatsConnect(o) ==
    /\ spc = "connect"
    /\ StatsFrame
    /\ fetch_log' = Append(fetch_log, <<>>)
    /\ IF o = "ok"
       THEN /\ spc' = "cache"
            /\ UNCHANGED <<si, attempt, handled, stats>>
       ELSE NextServer("connect_error")
    /\ UNCHANGED servers_config

\* lines 41-73: the username cache; an error is logged and passed over
StatsCache(o) ==
    /\ spc = "cache"
    /\ StatsFrame
    /\ spc' = "history"
    /\ attempt' = 0
    /\ UNCHANGED <<servers_config, si, fetch_log, handled, stats>>

\* lines 80-95 and 97-207: one plex.history() call of the retry loop and what
\* follows it: the items are processed, an empty history skips the server, a
\* failure is retried or raised to the handler of the server
StatsHistory(o) ==
    /\ spc = "history"
    /\ StatsFrame
    /\ attempt < max_retries
    /\ fetch_log' = [fetch_log EXCEPT ![si] = Append(@, o)]
    /\ CASE o = "items" -> NextServer("processed")
         [] o = "empty" -> NextServer("no_history")
         [] OTHER ->
              IF Retries(attempt)
              THEN /\ attempt' = attempt + 1
                   /\ UNCHANGED <<spc, si, handled, stats>>
              ELSE NextServer("history_error")
    /\ UNCHANGED servers_config

StatsIdle ==
    /\ spc = "idle"
    /\ si = 1
    /\ attempt = 0
    /\ fetch_log = <<>>
    /\ handled = <<>>
    /\ stats = NoStats

\* ------------------------------------------------------- specifications
RemoveIdle ==
    /\ rpc = "idle"
    /\ friends = <<>>
    /\ pending = <<>>
    /\ existing_user = NoUser
    /\ matched_by = "none"
    /\ target = 0
    /\ rresult = RResult(FALSE, "")
    /\ rreads = {}
    /\ rwrites = <<>>

ShareIdle ==
    /\ remote = NoRecord
    /\ library_ids = <<>>
    /\ pc = "idle"
    /\ valid = <<>>
    /\ existing = FALSE
    /\ result = NoResult
    /\ writes = <<>>
    /\ lookups = 0
    /\ before = NoRecord
    /\ calls = 0
    /\ others = 0
    /\ prev = [result |-> NoResult, writes |-> <<>>, remote |-> NoRecord]
    /\ fallback = NoFallback

RemoveInit ==
    /\ user_identifier \in Identifiers
    /\ elsewhere \in BOOLEAN
    /\ RemoveIdle
    /\ ShareIdle
    /\ ListIdle
    /\ ActivityIdle
    /\ servers_config = <<>>
    /\ StatsIdle
    /\ argv \in {a \in Argvs : a.command = ""}
    /\ MainIdle

RemoveNext ==
    \/ \E conn \in {"ok", "error"} : RemoveStart(conn)
    \/ \E f \in FriendPool : DirectFound(f)
    \/ \E o \in {"notfound", "error"} : DirectMissed(o)
    \/ \E fs \in FriendLists : FriendsScan(fs)
    \/ FriendsScanFailed
    \/ \E o \in {"ack", "error"} : RemoveFriend(o)
    \/ \E invs \in InviteLists : PendingInvites(invs)
    \/ PendingInvitesFailed
    \/ \E o \in {"ack", "error"} : CancelInvite(o)
    \/ RemoveTimeout

SpecRemove == RemoveInit /\ [][RemoveNext]_vars

ShareInit ==
    /\ user_identifier = ""
    /\ elsewhere = FALSE
    /\ RemoveIdle
    /\ ListIdle
    /\ ActivityIdle
    /\ servers_config = <<>>
    /\ StatsIdle
    /\ argv \in {a \in Argvs : a.command = ""}
    /\ MainIdle
    /\ remote \in RemoteStates
    /\ library_ids \in Requests
    /\ pc = "idle"
    /\ valid = <<>>
    /\ existing = FALSE
    /\ result = NoResult
    /\ writes = <<>>
    /\ lookups = 0
    /\ before = remote
    /\ calls = 0
    /\ others = 0
    /\ prev = [result |-> NoResult, writes |-> <<>>, remote |-> NoRecord]
    /\ fallback = NoFallback

ShareNext ==
    \/ \E conn \in {"ok", "noserver", "error"} : ShareStart(conn)
    \/ \E o \in {"answer", "e404", "error"} : RevokeLookup(o)
    \/ \E o \in WriteOutcomes : RevokeUpdate(o)
    \/ \E status \in {200, 500}, list \in SharedServerLists :
           RevokeGetShares(status, list)
    \/ \E status \in {200, 500} : RevokeDelete(status)
    \/ RevokeFallbackRaised
    \/ \E o \in {"answer", "error"} : Lookup(o)
    \/ \E o \in WriteOutcomes : Update(o)
    \/ \E o \in WriteOutcomes : Invite(o)
    \/ ShareTimeout
    \/ \E r \in RemoteStates : OtherWriter(r)

SpecShare == ShareInit /\ [][ShareNext]_vars

ListInit ==
    /\ user_identifier = ""
    /\ elsewhere = FALSE
    /\ RemoveIdle
    /\ ShareIdle
    /\ ListIdle
    /\ ActivityIdle
    /\ servers_config = <<>>
    /\ StatsIdle
    /\ argv \in {a \in Argvs : a.command = ""}
    /\ MainIdle

ListNext ==
    \/ ListStart
    \/ \E status \in {200, 500}, recs \in ShareLists : ListShares(status, recs)
    \/ \E o \in {"error", "timeout"} : ListSharesFailed(o)
    \/ \E o \in {"200", "500", "error", "timeout"} : ListCatalog(o)
    \/ \E o \in {"200", "500", "error", "timeout"}, hs \in HomeLists :
          ListHomeUsers(o, hs)
    \/ HomeSkip
    \/ \E o \in {"200", "404", "error", "timeout"}, sections \in SectionLists :
          HomeLookup(o, sections)
    \/ ActivityStart
    \/ \E status \in {200, 500}, recs \in ShareLists :
          ActivityShares(status, recs)
    \/ \E o \in {"error", "timeout"} : ActivitySharesFailed(o)
    \/ \E o \in {"ok", "error", "timeout"} : ActivityConnect(o)
    \/ \E o \in {"seen", "none", "error", "timeout"} : ActivityHistory(o)

SpecList == ListInit /\ [][ListNext]_vars

StatsInit ==
    /\ user_identifier = ""
    /\ elsewhere = FALSE
    /\ RemoveIdle
    /\ ShareIdle
    /\ ListIdle
    /\ ActivityIdle
    /\ argv \in {a \in Argvs : a.command = ""}
    /\ MainIdle
    /\ servers_config \in ServerConfigs
    /\ StatsIdle

StatsNext ==
    \/ StatsStart
    \/ \E o \in {"ok", "error"} : StatsConnect(o)
    \/ \E o \in {"ok", "error"} : StatsCache(o)
    \/ \E o \in {"items", "empty", "error"} : StatsHistory(o)

SpecStats == StatsInit /\ [][StatsNext]_vars

MainInit ==
    /\ user_identifier = ""
    /\ elsewhere = FALSE
    /\ RemoveIdle
    /\ ShareIdle
    /\ ListIdle
    /\ ActivityIdle
    /\ servers_config = <<>>
    /\ StatsIdle
    /\ argv \in Argvs
    /\ MainIdle

MainNext ==
    \/ MainNoCommand
    \/ MainArm
    \/ MainDispatch
    \/ Tick
    \/ OpEnterInner
    \/ OpLeaveInner
    \/ \E kind \in {"success", "warning", "failure"} : OpReturn(kind)
    \/ \E kind \in {"success", "failure"} : OpReturnArmed(kind)
    \/ OpAlarm
    \/ MainPrint
    \/ MainFinally
    \/ MainAlarm

SpecMain == MainInit /\ [][MainNext]_vars


\* ---------------------------------------------------------------- claims
ShareDone == pc = "done"

\* the call in progress is a grant (non-empty library_ids)
GrantCall == library_ids # <<>>

\* the user's share of this server carries exactly the validated sections
GrantedAsValidated == remote.secs = Range(valid)

\* C1 as stated: a grant call that returns success = true leaves the user's
\* granted set equal to the validated desired set.
C1_SuccessMeansGranted ==
    (ShareDone /\ GrantCall /\ result.success) => GrantedAsValidated

\* C1 amended: a grant call that returns success = true without a warning (the
\* write primitive returned normally) leaves the user's granted set equal to
\* the validated desired set, also when another writer acted before the write.
C1_AckedSuccessMeansGranted ==
    (ShareDone /\ GrantCall /\ result.success /\ ~result.warning)
        => GrantedAsValidated

C1_Witness ==
    /\ ShareDone /\ GrantCall /\ result.success /\ ~result.warning
    /\ others > 0
    /\ before.secs # Range(valid)
    /\ GrantedAsValidated

\* C2: a removal call (empty library_ids) that issued its bulk update and
\* returns success = true leaves the user without library access on the
\* server, whatever the fallback path did (no other writer involved).
C2_RevokeSuccessMeansNoAccess ==
    (ShareDone /\ ~GrantCall /\ result.success /\ writes # <<>> /\ others = 0)
        => remote.secs = {}

Invited(h) ==
    \E i \in DOMAIN h.writes :
        h.writes[i].op = "inviteFriend" /\ h.writes[i].out = "ack"

ThisCall == [result |-> result, writes |-> writes, remote |-> remote]

CleanSuccess(h) == h.result.success /\ ~h.result.warning

\* C3: two calls in sequence with the same desired state, both reporting
\* success (without a warning) and no other writer acting: the user's record
\* after the second call is the record after the first, and the second call
\* creates no second invite.
C3_Idempotent ==
    (ShareDone /\ calls >= 2 /\ others = 0
        /\ CleanSuccess(prev) /\ CleanSuccess(ThisCall))
        => /\ remote = prev.remote
           /\ ~(Invited(prev) /\ Invited(ThisCall))

LastWrite == writes[Len(writes)]

Raised404(op) ==
    /\ ShareDone /\ GrantCall /\ writes # <<>>
    /\ LastWrite.op = op
    /\ LastWrite.out \in {"e404_applied", "e404_lost"}

ReadFailures == {"error", "Server not found", "Operation timed out"}

\* C5: a removal call for a user who is absent, or who is a friend without a
\* share of this server, issues no mutating remote call and, unless a read
\* failed or the deadline expired, returns success with libraries_shared = 0.
C5_RevokeNoOp ==
    (ShareDone /\ ~GrantCall
        /\ (before.rel = "none" \/ (before.rel = "friend" /\ ~before.share)))
        => /\ writes = <<>>
           /\ remote = before
           /\ \/ result.success /\ result.libraries_shared = 0
              \/ ~result.success /\ result.message \in ReadFailures

C5_Witness ==
    /\ ShareDone /\ ~GrantCall
    /\ before.rel = "friend" /\ ~before.share
    /\ lookups = 1
    /\ result.success /\ result.libraries_shared = 0 /\ writes = <<>>

\* str(section.key) of every catalog section
CatalogKeys == {StrOf(k) : k \in Catalog}

\* the requested ids that are catalog keys, in request order
RequestedInCatalog == SelectSeq(library_ids, LAMBDA x : x \in CatalogKeys)

\* the call stopped before the catalog was read
ConnectFailed ==
    /\ ShareDone /\ lookups = 0 /\ writes = <<>>
    /\ result.message \in {"error", "Server not found"}

\* C6: once the catalog is read, valid_library_ids is the list of requested ids
\* that are catalog keys, in request order; when there is none the call fails
\* with "No valid library IDs provided" before any lookup or write.
C6_ValidationDrop ==
    (pc # "idle" /\ GrantCall /\ ~ConnectFailed)
        => /\ [i \in DOMAIN valid |-> StrOf(valid[i])] = RequestedInCatalog
           /\ (ShareDone /\ RequestedInCatalog = <<>>)
                => /\ ~result.success
                   /\ result.message = "No valid library IDs provided"
                   /\ lookups = 0
                   /\ writes = <<>>

C6_Witness ==
    /\ pc = "lookup"
    /\ library_ids = <<"9", "2">>
    /\ valid = <<2>>


\* the friends scan of remove_user resolved an account
ScanResolved == existing_user.found /\ matched_by \in {"username", "email", "title"}

IdLower == Lower(user_identifier)

\* only the display title of f equals the identifier
OnlyTitleEquals(f) ==
    /\ f.title # "" /\ Lower(f.title) = IdLower
    /\ f.username = "" \/ Lower(f.username) # IdLower
    /\ f.email = "" \/ Lower(f.email) # IdLower

UsernameEquals(f) == f.username # "" /\ Lower(f.username) = IdLower

\* no field of f that is set equals the identifier
NoFieldEquals(f) ==
    \A x \in {f.username, f.email, f.title} : x = "" \/ Lower(x) # IdLower

\* C9 as stated: when the identifier equals the username of one friend and only
\* the display title of another, the scan resolves the friend matched by
\* username, whatever their order in the list.
C9_UsernameMatchWins ==
    (ScanResolved
        /\ \E i, j \in DOMAIN friends :
              i # j /\ UsernameEquals(friends[i]) /\ OnlyTitleEquals(friends[j]))
        => UsernameEquals(existing_user.user)

\* C9 amended: the scan resolves the first friend, in list order, one of whose
\* username, email and title is set and equals the identifier ignoring case;
\* the field order username, email, title only decides which field of that
\* friend is reported as matched.  With no such friend nothing is resolved.
C9_FirstMatchWins ==
    /\ ScanResolved =>
          \E i \in DOMAIN friends :
              /\ existing_user.user = friends[i]
              /\ ~NoFieldEquals(friends[i])
              /\ \A j \in 1..(i - 1) : NoFieldEquals(friends[j])
              /\ matched_by = "username" <=> UsernameEquals(friends[i])
              /\ matched_by = "title" => OnlyTitleEquals(friends[i])
    /\ "users" \in rreads => \A j \in DOMAIN friends : NoFieldEquals(friends[j])

C9_Witness ==
    /\ rpc = "remove"
    /\ matched_by = "title"
    /\ Len(friends) = 2
    /\ existing_user.user = friends[1]
    /\ UsernameEquals(friends[2])

\* an invite's email or username equals the identifier ignoring case (an
\* attribute that is not set reads as the empty string)
InviteEquals(inv) ==
    Lower(inv.email) = IdLower \/ Lower(inv.username) = IdLower

Cancels == {i \in DOMAIN rwrites : rwrites[i].op = "cancelInvite"}

\* C10: cancelInvite is issued only after the direct lookup and the friends
\* scan both answered without a match, and for the first pending invite whose
\* email or username equals the identifier ignoring case; when the invites are
\* read and none matches, the call returns success without a mutating call.
C10_CancelOnlyAfterMiss ==
    /\ \A i \in Cancels :
          /\ ~existing_user.found
          /\ {"direct", "users", "invites"} \subseteq rreads
          /\ \A j \in DOMAIN friends : NoFieldEquals(friends[j])
          /\ rwrites[i].invite \in DOMAIN pending
          /\ InviteEquals(pending[rwrites[i].invite])
          /\ \A j \in 1..(rwrites[i].invite - 1) : ~InviteEquals(pending[j])
    /\ (rpc = "done" /\ "invites" \in rreads
            /\ \A j \in DOMAIN pending : ~InviteEquals(pending[j]))
          => (rresult.success /\ rwrites = <<>>)
    /\ (rpc = "cancel") => \E j \in DOMAIN pending : InviteEquals(pending[j])

C10_Witness ==
    /\ rpc = "done"
    /\ rresult.success
    /\ Len(rwrites) = 1
    /\ rwrites[1].op = "cancelInvite"
    /\ rwrites[1].invite = 1
    /\ Len(pending) = 2
    /\ InviteEquals(pending[2])
    /\ friends # <<>>


\* the call returned the merged list
ListDone == lpc = "done" /\ lresult.success

\* C7 as stated: in every merged state returned, whatever the raw share
\* records and home users, no two records carry the same lowercased email, and
\* an email carried by a share record and by a home user is present only as
\* the share-derived record.
C7_NoEmailTwice ==
    ListDone =>
        /\ \A i, j \in DOMAIN users_list :
              i # j => users_list[i].email # users_list[j].email
        /\ \A i, j \in DOMAIN users_list :
              (users_list[i].is_home_user /\ ~users_list[j].is_home_user)
                  => users_list[i].email # users_list[j].email

\* the home users whose per-server sharing lookup failed: a status other than
\* 200, an error raised, or the alarm going off during the request
FailedLookups ==
    {k \in DOMAIN home_log : home_log[k].lookup \in {"404", "error", "timeout"}}

\* C8: a home user whose per-server sharing lookup failed has no library ids in
\* the merged state (no record of that user is added), restricted or not, and
\* never the full catalog.
C8_FailClosed ==
    \A k \in FailedLookups :
        /\ home_log[k].library_ids = <<>>
        /\ \A i \in DOMAIN users_list :
              users_list[i].is_home_user
                  => users_list[i].plex_user_id # home_log[k].id

C8_Witness ==
    /\ ListDone
    /\ all_library_ids # <<>>
    /\ \E k \in FailedLookups : ~home_users[home_log[k].id].restricted


\* the operation named by the command was entered and has returned
OpReturned == op_result # "none"

\* C11: every operation ends in one of success, success with a warning, or
\* failure as a returned value, and a deadline that expires while the
\* operation runs makes its outcome a failure.
C11_ClosedOutcome ==
    OpReturned =>
        /\ op_result \in {"success", "warning", "failure", "timeout"}
        /\ expired.at \in {"body", "inner"} => op_result \in {"failure", "timeout"}

CheckRuns == argv.command = "check_user_info" /\ mpc = "op"

C13_ExactlyOneDocument ==
    (mpc = "exit" /\ argv.command # "") => Len(docs) = 1

\* the arguments are malformed or the command is unknown
BadArguments ==
    \/ argv.command \notin Commands
    \/ ~argv.enough
    \/ argv.json = "invalid"

\* C14: malformed arguments and an unknown command end in a JSON error
\* document and a non-zero exit status; every other run ends with status 0.
C14_BadArgumentsExitNonZero ==
    mpc = "exit" =>
        IF BadArguments
        THEN docs # <<>> /\ exit_status # 0
        ELSE exit_status = 0

\* C15: every JSON document written has a boolean success field and a message.
C15_SuccessAndMessage ==
    \A i \in DOMAIN docs :
        docs[i].success \in {"true", "false"} /\ docs[i].message

\* C16: an invocation of remove_user for one server leaves the user's access
\* to every other server of the same account as it was: no step of the
\* invocation changes it.
C16_OtherServersUnchanged == [][elsewhere' = elsewhere]_vars

\* the grant call in progress issued a write and no other writer acted
PlanIssued == ShareDone /\ GrantCall /\ writes # <<>> /\ others = 0

\* C17: for a non-empty validated set the write issued is inviteFriend if and
\* only if the user was neither a friend nor a pending invitee when the call
\* started; for a friend or a pending invitee the write is updateFriend with
\* exactly the validated sections, and only one write is issued.
C17_PlanSelection ==
    PlanIssued =>
        /\ (writes[1].op = "inviteFriend") <=> (before.rel = "none")
        /\ before.rel \in {"friend", "pending"} =>
               /\ writes[1].op = "updateFriend"
               /\ writes[1].secs = Range(valid)
        /\ Len(writes) = 1

\* the removal call in progress issued its bulk update, which raised a 404
BulkRaised404 ==
    /\ ~GrantCall /\ writes # <<>>
    /\ writes[1].op = "updateFriend"
    /\ writes[1].out \in {"e404_applied", "e404_lost"}

\* C18: a removal call whose bulk update raised a 404 and whose fallback
\* fetched the share list without finding a share of the user returns success
\* carrying a warning.
C18_NoShareFoundWarns ==
    (ShareDone /\ BulkRaised404 /\ fallback.status = 200
        /\ fallback.target_share_id = None)
        => (result.success /\ result.warning)

\* positions in `writes` of the direct deletes of a share
Deletes == {i \in DOMAIN writes : writes[i].op = "deleteShare"}

\* the share list was fetched with status 200 and target_share_id is the id
\* of a listed share matching the user's email or username
TargetFound ==
    /\ fallback.status = 200
    /\ \E j \in DOMAIN fallback.shared_servers :
           /\ ShareMatches(fallback.shared_servers[j])
           /\ fallback.shared_servers[j].id = fallback.target_share_id

\* C19: the direct delete of a share is issued, or about to be issued, only
\* after the bulk update raised a 404 and the share list was fetched with a
\* matching share in it, whose id it targets; it is issued at most once, and
\* never when the bulk update was acknowledged.
C19_DeleteOnlyInFallback ==
    /\ (Deletes # {} \/ pc = "rv_delete") => (BulkRaised404 /\ TargetFound)
    /\ Cardinality(Deletes) <= 1
    /\ (writes # <<>> /\ writes[1].out = "ack") => Deletes = {}

C19_Witness ==
    /\ ShareDone /\ Deletes = {2}
    /\ fallback.shared_servers = <<OtherShare, UserShare>>
    /\ fallback.target_share_id = UserShare.id
    /\ writes[2].out = "ack"

\* the call in progress ended with a write that raised an error without the
\* not-found code in its text
RaisedOther(op) ==
    /\ ShareDone /\ writes # <<>>
    /\ LastWrite.op = op
    /\ LastWrite.out = "error"

\* C20: an inviteFriend or updateFriend call (of a grant or of a removal)
\* that raises an error without 404 in its text ends the call with
\* success = false and the error text as message.
C20_OtherErrorIsFailure ==
    (RaisedOther("inviteFriend") \/ RaisedOther("updateFriend"))
        => (~result.success /\ result.message = "error")

C20_Witness ==
    /\ RaisedOther("inviteFriend")
    /\ ~result.success /\ result.message = "error"
    /\ remote = before

\* the requested ids that validation dropped (lines 213-218)
DroppedIds == Len(library_ids) - Len(valid)

\* the warnings the returned dict carries: its "warning" key, when present
WarningsRecorded == IF result.warning THEN 1 ELSE 0

\* C21: a grant call that dropped k requested ids, kept at least one and
\* returned success carries exactly k warnings in the dict it returns.
C21_WarningPerDroppedId ==
    (ShareDone /\ GrantCall /\ valid # <<>> /\ result.success)
        => WarningsRecorded = DroppedIds

\* the home users given the whole catalog without a section flagged shared
FullCatalogByDefault ==
    {i \in DOMAIN home_log :
        /\ home_log[i].library_ids # <<>>
        /\ home_log[i].library_ids = all_library_ids
        /\ SharedKeys(home_log[i].sections) = <<>>}

\* C22: a home user is given the whole catalog only when the user is
\* unrestricted, the sharing lookup answered 200 and its response carries no
\* <Section> at all; a response with sections, flagged or not, never does.
C22_FullCatalogOnlyOnEmptyLookup ==
    \A i \in FullCatalogByDefault :
        /\ ~home_users[home_log[i].id].restricted
        /\ home_log[i].lookup = "200"
        /\ home_log[i].sections = <<>>

\* the section ids carried by the records of the returned list
ListedIds ==
    UNION {Range(users_list[i].library_ids) : i \in DOMAIN users_list}

\* C23: when the call returns success having read the catalog, every library
\* id of every record of the list is the key of a section of that catalog.
C23_IdsInCatalog ==
    (lpc = "done" /\ lresult.success /\ all_library_ids = LibraryKeys)
        => ListedIds \subseteq Range(all_library_ids)

\* every record of the lists built by the two listing functions
ListedRecords ==
    {users_list[i] : i \in DOMAIN users_list}
        \cup {[is_pending_invite |-> r.is_pending_invite,
               is_active_friend |-> r.is_active_friend] :
               r \in Range(activity_users_list) \cup Range(pending_invites_list)}

\* C24: no record built by get_all_users_with_library_access or by
\* get_all_users_with_activity is flagged both as a pending invite and as an
\* active friend, whatever acceptedAt and invitedAt of the shared server.
C24_PendingExcludesActive ==
    \A r \in ListedRecords : ~(r.is_pending_invite /\ r.is_active_friend)

\* the shared server with acceptedAt and invitedAt both set is listed
C24_Witness ==
    /\ lpc = "done" /\ lresult.success
    /\ \E i \in DOMAIN users_list :
           /\ users_list[i].email = "a@x" /\ users_list[i].username = "u"
           /\ users_list[i].is_active_friend
           /\ ~users_list[i].is_pending_invite

\* C25: from set_timeout(120) in main until the result document is written a
\* SIGALRM due no later than 120 seconds after the start is scheduled, also
\* after an operation has set its own budget; an operation still running at
\* 120 seconds has its alarm due.
C25_GlobalCeiling ==
    /\ mpc \in {"try", "op", "returned"}
          => (armed /\ alarm_at <= GlobalBudget)
    /\ (mpc = "op" /\ now >= GlobalBudget) => Due

\* positions in `writes` of the calls of one mutating primitive
CallsOf(op) == {i \in DOMAIN writes : writes[i].op = op}

\* each mutating primitive is called at most once by the call in progress
EachPrimitiveOnce ==
    \A op \in {"inviteFriend", "updateFriend", "deleteShare"} :
        Cardinality(CallsOf(op)) <= 1

\* positions in `writes` of the writes that raised or were refused
FailedWrites == {i \in DOMAIN writes : writes[i].out # "ack"}

\* C26 as stated: within one call each mutating primitive is called at most
\* once, and a write that failed is the last mutating call of the call.
C26_NoWriteAfterFailure ==
    /\ EachPrimitiveOnce
    /\ \A i \in FailedWrites : i = Len(writes)

\* C26 amended: within one call each mutating primitive is called at most
\* once, and a write that failed is the last mutating call of the call, except
\* that the bulk update of a removal that raised a 404 may be followed by one
\* direct delete of the share.
C26_NoRetry ==
    /\ EachPrimitiveOnce
    /\ \A i \in FailedWrites :
           \/ i = Len(writes)
           \/ /\ i = 1 /\ BulkRaised404
              /\ Len(writes) = 2
              /\ writes[2].op = "deleteShare"

C26_Witness ==
    /\ ShareDone /\ Len(writes) = 2
    /\ writes[1].op = "updateFriend" /\ writes[1].out = "e404_lost"
    /\ writes[2].op = "deleteShare" /\ writes[2].out = "error"
    /\ result.success

\* the shared_servers endpoint answered with a status other than 200
SharesRefused == shares_status \notin {0, 200}

\* C27: when the shared_servers endpoint answers with a status other than
\* 200, get_all_users_with_library_access returns success = false.
C27_SharesFailureIsFatal ==
    (lpc = "done" /\ SharesRefused) => ~lresult.success

\* the servers whose iteration has ended
HandledServers == DOMAIN handled

\* the outcomes of the history fetches of server i, the last one aside
EarlierFetches(i) ==
    {fetch_log[i][j] : j \in 1..(Len(fetch_log[i]) - 1)}

\* C28: the history of a server is fetched at most three times and no more
\* after a fetch that succeeded; a server is passed over for a failed fetch
\* only after three failures; the servers after it are still visited and the
\* collector, which can always take a step until it is done, ends with a
\* success document that accounts for every server.
C28_ThreeAttempts ==
    /\ \A i \in DOMAIN fetch_log :
           /\ Len(fetch_log[i]) <= max_retries
           /\ EarlierFetches(i) \subseteq {"error"}
    /\ \A i \in HandledServers :
           handled[i] = "history_error"
               <=> fetch_log[i] = <<"error", "error", "error">>
    /\ spc # "done" => ENABLED StatsNext
    /\ spc = "done" =>
           /\ stats.success
           /\ Len(handled) = Len(servers_config)

C28_Witness ==
    /\ spc = "done" /\ stats.success
    /\ Len(servers_config) = 2
    /\ handled = <<"history_error", "processed">>
    /\ fetch_log[2] = <<"error", "items">>

\* C29: when a listing operation has returned its dict, the SIGALRM it set
\* with set_timeout is no longer scheduled.
C29_ReturnsDisarmed ==
    /\ lpc = "done" => ~alarm
    /\ apc = "done" => ~aalarm

\* C30: one call of remove_user issues at most one mutating call, one
\* removeFriend or one cancelInvite, also when several pending invites match
\* the identifier; once it has issued it, the call has returned.
C30_OneMutatingCall ==
    /\ Len(rwrites) <= 1
    /\ rwrites # <<>> => rpc = "done"

C30_Witness ==
    /\ rpc = "done"
    /\ Len(pending) = 2
    /\ InviteEquals(pending[1]) /\ InviteEquals(pending[2])
    /\ Len(rwrites) = 1
    /\ rwrites[1].op = "cancelInvite"
    /\ rwrites[1].out = "ack"

====
